---- MODULE Spec2Model ----
(***************************************************************************)
(* A model of structure_threader's MavericK wrapper                        *)
(* (src/structure_threader/wrappers/maverick_wrapper.py).                  *)
(*                                                                         *)
(* Text is modelled as a sequence of characters.  To keep the alphabet     *)
(* small a "character" is either one of the separators the code looks for  *)
(* (tab, space, newline, comma) or an indivisible chunk of non-separator   *)
(* text such as "alpha" or "PropSD", so that "alphaPropSD" is the two      *)
(* characters <<"alpha", "PropSD">> and has "alpha" as a proper prefix.    *)
(* str.startswith, str.split() and str.split(sep) are computed on these    *)
(* sequences as Python computes them on strings.                           *)
(***************************************************************************)
EXTENDS Integers, Sequences, FiniteSets, TLC

VARIABLES
    \* ---- inputs and results of the functions ----
    params_file,    \* the parameter file: a sequence of lines
    k_list,         \* arg.k_list / k_list
    op,             \* the function called last, or "init"
    call,           \* the arguments of that call
    ret,            \* what that call returned or raised
    dirs,           \* the directories that exist under the output path
    \* ---- maverick_merger ----
    pc,             \* the position in the function that is running
    frags,          \* the per-K fragments: <<k, filename>> -> content
    files,          \* the files written: path -> content on disk
    no_tests,       \* the local no_tests
    files_list,     \* the local files_list
    fidx,           \* position of "for filename in files_list"
    kidx,           \* position of "for i in k_list"
    first_k,        \* the local first_k
    evidence,       \* the local evidence
    outbuf,         \* what has been written to the open outfile
    \* ---- maverick_normalization ----
    draws,          \* the argument draws
    norm_i,         \* the rows of z_array filled so far, range(...)'s position
    z_array,        \* the local z_array, a row per K
    norm_res        \* the local norm_res

mergeVars ==
    <<pc, frags, files, no_tests, files_list, fidx, kidx, first_k, evidence,
      outbuf>>

normVars == <<draws, norm_i, z_array, norm_res>>

vars == <<params_file, k_list, op, call, ret, dirs, mergeVars, normVars>>

----------------------------------------------------------------------------
\* Bounds of the model.
MaxK == 3           \* the K values are 1..MaxK, a KList has at most MaxK entries
MaxToks == 3        \* a parameter value has at most MaxToks comma-separated tokens
MaxLines == 2       \* lines of a parameter file given to mav_params_parser

----------------------------------------------------------------------------
\* Characters and strings.
Tab == "\t"
Space == " "
Newline == "\n"
Comma == ","

Whitespace == {Tab, Space, Newline}

\* str.startswith(prefix)
StartsWith(s, p) ==
    /\ Len(p) <= Len(s)
    /\ SubSeq(s, 1, Len(p)) = p

\* str.startswith(tuple_of_prefixes)
StartsWithAny(s, prefixes) == \E p \in prefixes : StartsWith(s, p)

\* str.split(sep): the pieces between the separators, empty pieces included.
RECURSIVE SplitOn(_, _)
SplitOn(s, sep) ==
    IF \A i \in 1..Len(s) : s[i] # sep
    THEN <<s>>
    ELSE LET i == CHOOSE j \in 1..Len(s) :
                      /\ s[j] = sep
                      /\ \A m \in 1..(j - 1) : s[m] # sep
         IN  <<SubSeq(s, 1, i - 1)>> \o SplitOn(SubSeq(s, i + 1, Len(s)), sep)

\* str.split(): the maximal runs of non-whitespace characters.
RECURSIVE SplitWS(_)
SplitWS(s) ==
    IF s = <<>> THEN <<>>
    ELSE IF s[1] \in Whitespace THEN SplitWS(Tail(s))
    ELSE LET stops == {j \in 1..Len(s) : s[j] \in Whitespace}
             end == IF stops = {} THEN Len(s) + 1
                    ELSE CHOOSE j \in stops : \A m \in stops : j <= m
         IN  <<SubSeq(s, 1, end - 1)>> \o SplitWS(SubSeq(s, end, Len(s)))

\* str.lower() on the characters of the model.
LowerChar(c) ==
    CASE c = "F" -> "f"
      [] c = "T" -> "t"
      [] OTHER -> c

Lower(s) == [i \in 1..Len(s) |-> LowerChar(s[i])]

\* str(int): the decimal digits.
DigitChars == <<"0", "1", "2", "3", "4", "5", "6", "7", "8", "9">>

RECURSIVE StrInt(_)
StrInt(n) ==
    IF n < 10 THEN <<DigitChars[n + 1]>>
    ELSE StrInt(n \div 10) \o <<DigitChars[(n % 10) + 1]>>

\* The set of elements of a sequence.
Range(s) == {s[i] : i \in 1..Len(s)}

\* A Python dict is a function; d[key] = value on it.
EmptyDict == <<>>
DictSet(d, key, value) ==
    [x \in (DOMAIN d) \cup {key} |-> IF x = key THEN value ELSE d[x]]

\* Python's None and False next to dicts: tagged so that they compare.
None == [tag |-> "None"]
False == [tag |-> "False"]
Dict(d) == [tag |-> "dict", d |-> d]

----------------------------------------------------------------------------
\* Parameter names.
alpha == <<"alpha">>
alphaPropSD == <<"alpha", "PropSD">>

\* mav_params_parser: sane_query, the queried keys each followed by a tab.
SaneQueryNoTab(query) == {query[i] : i \in 1..Len(query)}

SaneQuery(query) == {query[i] \o <<Tab>> : i \in 1..Len(query)}

\* mav_params_parser: the loop over the lines of the file, from the result
\* so far; a matching line with fewer than two tokens raises IndexError at
\* lines[1].
RECURSIVE ParseLines(_, _, _)
ParseLines(lines, sane_query, result) ==
    IF lines = <<>> THEN [exc |-> "none", result |-> result]
    ELSE IF StartsWithAny(Head(lines), sane_query)
         THEN LET toks == SplitWS(Head(lines))
              IN  IF Len(toks) < 2
                  THEN [exc |-> "IndexError", result |-> result]
                  ELSE ParseLines(Tail(lines), sane_query,
                                  DictSet(result, toks[1], toks[2]))
         ELSE ParseLines(Tail(lines), sane_query, result)

\* mav_params_parser(parameter_filename, query)
mav_params_parser(file, query) ==
    LET r == ParseLines(file, SaneQuery(query), EmptyDict)
    IN  IF r.exc # "none" THEN [exc |-> r.exc, val |-> None]
        ELSE IF r.result = EmptyDict THEN [exc |-> "none", val |-> None]
        ELSE [exc |-> "none", val |-> Dict(r.result)]

----------------------------------------------------------------------------
\* mav_alpha_failsafe

\* parameters = ("alpha", "alphaPropSD")
parameters == <<alpha, alphaPropSD>>

\* len(val) > 1: the value is a per-K list, not a single value.
IsPerK(val) == Len(val) > 1

\* len(val) != len(k_list): the fatal discrepancy.
LengthMismatchOnlyLonger(val, klist) == Len(val) > Len(klist)

LengthMismatch(val, klist) == Len(val) # Len(klist)

\* for i, j in zip(k_list, val): sorted_data[param][i] = j
ZipDictByIndex(klist, val) ==
    LET n == IF Len(klist) < Len(val) THEN Len(klist) ELSE Len(val)
    IN  [i \in 0..(n - 1) |-> val[i + 1]]

RECURSIVE ZipDict(_, _)
ZipDict(klist, val) ==
    IF klist = <<>> \/ val = <<>> THEN EmptyDict
    ELSE LET n == IF Len(klist) < Len(val) THEN Len(klist) ELSE Len(val)
         IN  DictSet(ZipDict(SubSeq(klist, 1, n - 1), SubSeq(val, 1, n - 1)),
                     klist[n], val[n])

\* mav_alpha_failsafe(parameter_filename, k_list).  The loop over
\* parsed_data.items() either exits at the first entry with a length
\* mismatch or sets the entries of the per-K values, each independently of
\* the others, so its outcome does not depend on the order of the items.
mav_alpha_failsafe(file, klist) ==
    LET sorted_data == [x \in Range(parameters) |-> False]
        parsed == mav_params_parser(file, parameters)
    IN  IF parsed.exc # "none" THEN [status |-> parsed.exc, val |-> None]
        ELSE IF parsed.val = None THEN [status |-> "ok", val |-> sorted_data]
        ELSE LET d == parsed.val.d
                 toks(p) == SplitOn(d[p], Comma)
                 perk == {p \in DOMAIN d : IsPerK(toks(p))}
             IN  IF \E p \in perk : LengthMismatch(toks(p), klist)
                 THEN [status |-> "SystemExit", val |-> None]
                 ELSE [status |-> "ok",
                       val |-> [x \in (DOMAIN sorted_data) \cup perk |->
                                  IF x \in perk
                                  THEN Dict(ZipDict(klist, toks(x)))
                                  ELSE sorted_data[x]]]

----------------------------------------------------------------------------
\* mav_cli_generator

\* os.path.sep and the root_dir chosen from os.name
PathSep(os_name) == IF os_name = "nt" THEN "\\" ELSE "/"
RootDir(os_name) == IF os_name = "nt" THEN <<>> ELSE <<"/">>

\* output_dir = os.path.join(arg.outpath, "mav_K" + str(k_val)) + os.path.sep
OutputDir(arg, k_val, os_name) ==
    arg.outpath \o <<PathSep(os_name), "mav_K">> \o StrInt(k_val)
        \o <<PathSep(os_name)>>

\* The fixed part of the command line.
CliBaseKmaxOff(arg, k_val, os_name) ==
    << arg.external_prog, <<"-Kmin">>, StrInt(k_val), <<"-Kmax">>,
       StrInt(k_val + 1), <<"-data">>, arg.infile, <<"-outputRoot">>,
       OutputDir(arg, k_val, os_name), <<"-masterRoot">>, RootDir(os_name),
       <<"-parameters">>, arg.params >>

CliBase(arg, k_val, os_name) ==
    << arg.external_prog, <<"-Kmin">>, StrInt(k_val), <<"-Kmax">>,
       StrInt(k_val), <<"-data">>, arg.infile, <<"-outputRoot">>,
       OutputDir(arg, k_val, os_name), <<"-masterRoot">>, RootDir(os_name),
       <<"-parameters">>, arg.params >>

\* if arg.notests is True: cli += ["-thermodynamic_on", "f"]
CliTests(arg) ==
    IF arg.notests THEN << <<"-thermodynamic_on">>, <<"f">> >> ELSE <<>>

\* for param in failsafe: if failsafe[param] is not False:
\*     cli += ["-" + param, failsafe[param][k_val]]
\* over the parameters left to visit; a K that is no key raises KeyError.
RECURSIVE CliOverrides(_, _, _)
CliOverrides(todo, failsafe, k_val) ==
    IF todo = <<>> THEN [exc |-> "none", cli |-> <<>>]
    ELSE LET param == Head(todo)
             rest == CliOverrides(Tail(todo), failsafe, k_val)
         IN  IF failsafe[param] = False THEN rest
             ELSE IF k_val \notin DOMAIN failsafe[param].d
             THEN [exc |-> "KeyError", cli |-> <<>>]
             ELSE IF rest.exc # "none" THEN rest
             ELSE [exc |-> "none",
                   cli |-> << <<"-">> \o param, failsafe[param].d[k_val] >>
                             \o rest.cli]

\* The order in which "for param in failsafe" visits the keys: the two
\* parameters in the order of the tuple, then any key added later.
RECURSIVE SetToSeq(_)
SetToSeq(S) ==
    IF S = {} THEN <<>>
    ELSE LET x == CHOOSE y \in S : TRUE IN <<x>> \o SetToSeq(S \ {x})

FailsafeOrder(failsafe) ==
    parameters \o SetToSeq((DOMAIN failsafe) \ Range(parameters))

\* mav_cli_generator(arg, k_val): (cli, output_dir), or the exception that
\* ends it.
mav_cli_generator(arg, k_val, os_name) ==
    LET failsafe == mav_alpha_failsafe(arg.params_content, arg.k_list)
    IN  IF failsafe.status # "ok"
        THEN [status |-> failsafe.status, cli |-> <<>>, output_dir |-> <<>>]
        ELSE LET over == CliOverrides(FailsafeOrder(failsafe.val),
                                      failsafe.val, k_val)
             IN  IF over.exc # "none"
                 THEN [status |-> over.exc, cli |-> <<>>, output_dir |-> <<>>]
                 ELSE [status |-> "ok",
                       cli |-> CliBase(arg, k_val, os_name) \o CliTests(arg)
                                 \o over.cli,
                       output_dir |-> OutputDir(arg, k_val, os_name)]

----------------------------------------------------------------------------
\* The inputs the model draws from.

\* A KList: distinct K values of 1..MaxK, in any order.
KLists ==
    {s \in UNION {[1..n -> 1..MaxK] : n \in 1..MaxK} :
        \A i, j \in 1..Len(s) : i # j => s[i] # s[j]}

\* A parameter value of n comma-separated tokens, "0.1,0.2,...": the i-th
\* token names its position.  No token at all is the empty value.
RECURSIVE Value(_)
Value(n) ==
    IF n = 0 THEN <<>>
    ELSE IF n = 1 THEN <<"0.">> \o StrInt(1)
    ELSE Value(n - 1) \o <<Comma, "0.">> \o StrInt(n)

\* The i-th token of such a value.
Token(i) == <<"0.">> \o StrInt(i)

\* A line of the parameter file: key, separator, value, end of line.
Line(key, sep, n) == key \o <<sep>> \o Value(n) \o <<Newline>>

\* The parameter files of the command-line functions: for each of alpha and
\* alphaPropSD either no line or one "key<TAB>value" line.
CliLines(key) ==
    {<<>>} \cup {<<Line(key, Tab, n)>> : n \in 0..MaxToks}

CliParamFiles ==
    {a \o b : a \in CliLines(alpha), b \in CliLines(alphaPropSD)}

\* The parameter files of mav_params_parser: up to MaxLines lines, each with
\* a key, a tab or a space after it, and a value.
ParserLines ==
    {Line(key, sep, n) : key \in {alpha, alphaPropSD}, sep \in {Tab, Space},
                         n \in 0..MaxToks}

ParserParamFiles == UNION {[1..n -> ParserLines] : n \in 0..MaxLines}

\* The query tuples given to mav_params_parser.
thermodynamic_on == <<"thermodynamic_on">>

Queries ==
    { <<alpha>>, <<alphaPropSD>>, <<alpha, alphaPropSD>>,
      <<thermodynamic_on>>, <<thermodynamic_on, alpha>> }

\* The rest of arg, fixed for a run of the program.
Arg(notests) ==
    [outpath |-> <<"out">>, external_prog |-> <<"MavericK">>,
     infile |-> <<"infile">>, params |-> <<"parameters.txt">>,
     params_content |-> params_file, k_list |-> k_list, notests |-> notests]

----------------------------------------------------------------------------
\* The command-line functions as a state machine: a run of the program has a
\* parameter file, a KList, arg.notests and a platform, and calls
\* mav_alpha_failsafe and mav_cli_generator until one of them ends the
\* process.

NoCall == [status |-> "none"]

\* The merger's variables while maverick_merger is not running.
MergerIdle ==
    /\ pc = "idle"
    /\ frags = <<>>
    /\ files = <<>>
    /\ no_tests = FALSE
    /\ files_list = <<>>
    /\ fidx = 0
    /\ kidx = 0
    /\ first_k = FALSE
    /\ evidence = None
    /\ outbuf = <<>>

\* The variables of maverick_normalization while it is not running.
NormIdle ==
    /\ draws = 0
    /\ norm_i = 0
    /\ z_array = <<>>
    /\ norm_res = <<>>

\* The process has not been ended by sys.exit or an uncaught exception.
Alive == ret.status \in {"none", "ok"}

InitCli ==
    /\ params_file \in CliParamFiles
    /\ k_list \in KLists
    /\ op = "init"
    /\ call \in [notests : BOOLEAN, os_name : {"posix", "nt"}]
    /\ ret = NoCall
    /\ dirs = {}
    /\ MergerIdle
    /\ NormIdle

CallFailsafe ==
    /\ Alive
    /\ op' = "mav_alpha_failsafe"
    /\ ret' = mav_alpha_failsafe(params_file, k_list)
    /\ UNCHANGED <<params_file, k_list, call, dirs, mergeVars, normVars>>

\* os.mkdir(output_dir) comes first and tolerates an existing directory.
CallCliGenerator ==
    /\ Alive
    /\ \E k_val \in Range(k_list) :
          /\ op' = "mav_cli_generator"
          /\ call' = [notests |-> call.notests, os_name |-> call.os_name,
                      k_val |-> k_val]
          /\ dirs' = dirs \cup {OutputDir(Arg(call.notests), k_val,
                                          call.os_name)}
          /\ ret' = mav_cli_generator(Arg(call.notests), k_val, call.os_name)
    /\ UNCHANGED <<params_file, k_list, mergeVars, normVars>>

NextCli == CallFailsafe \/ CallCliGenerator

SpecCli == InitCli /\ [][NextCli]_vars

----------------------------------------------------------------------------
\* mav_params_parser on its own: any of the parameter files, any query.

InitParser ==
    /\ params_file \in ParserParamFiles
    /\ k_list = <<>>
    /\ op = "init"
    /\ call = <<>>
    /\ ret = NoCall
    /\ dirs = {}
    /\ MergerIdle
    /\ NormIdle

CallParser ==
    /\ \E query \in Queries :
          /\ op' = "mav_params_parser"
          /\ call' = query
          /\ ret' = mav_params_parser(params_file, query)
    /\ UNCHANGED <<params_file, k_list, dirs, mergeVars, normVars>>

NextParser == CallParser

SpecParser == InitParser /\ [][NextParser]_vars

----------------------------------------------------------------------------
\* maverick_merger

\* output_params
outputEvidence == <<"outputEvidence">>
outputEvidence_on == <<"outputEvidence", "_on">>
outputEvidenceDetails_on == <<"outputEvidence", "Details", "_on">>
outputEvidenceDetails == <<"outputEvidence", "Details">>

output_params ==
    <<outputEvidence, outputEvidence_on, outputEvidenceDetails_on,
      outputEvidenceDetails>>

\* The default file names.
DefaultEvidence == <<"outputEvidence", ".csv">>
DefaultEvidenceDetails == <<"outputEvidence", "Details", ".csv">>

\* The words that switch a toggle off and on.
FalseWords == {<<"f">>, <<"false">>, <<"0">>}
TrueWords == {<<"t">>, <<"true">>, <<"1">>}

\* _gen_files_list, from the dict that mav_params_parser returned: a missing
\* key is the KeyError that each "try" catches.
GenFilesList(parsed_params, notests) ==
    LET has(key) == key \in DOMAIN parsed_params
        first == IF has(outputEvidence) THEN parsed_params[outputEvidence]
                 ELSE DefaultEvidence
        evidence_filename ==
            IF has(outputEvidenceDetails)
            THEN parsed_params[outputEvidenceDetails]
            ELSE DefaultEvidenceDetails
        second ==
            IF has(outputEvidenceDetails_on)
            THEN IF Lower(parsed_params[outputEvidenceDetails_on]) \in TrueWords
                 THEN <<evidence_filename>>
                 ELSE <<>>
            ELSE <<evidence_filename>>
    IN  [files_list |-> <<first>> \o second,
         no_tests |->
            IF /\ has(outputEvidence_on)
               /\ Lower(parsed_params[outputEvidence_on]) \in FalseWords
            THEN TRUE
            ELSE notests]

\* file.readline(): the text up to and with the first newline.
ReadLine(text) ==
    LET stops == {j \in 1..Len(text) : text[j] = Newline}
    IN  IF stops = {} THEN text
        ELSE SubSeq(text, 1, CHOOSE j \in stops : \A m \in stops : j <= m)

\* _mav_output_parser: header = readline(); data = "".join(readlines());
\* header + data.
MavOutputParser(text) ==
    LET header == ReadLine(text)
        data == SubSeq(text, Len(header) + 1, Len(text))
    IN  header \o data

\* {head: [val] for head, val in zip(heads, vals)}
RECURSIVE EvidenceFirst(_, _)
EvidenceFirst(heads, vals) ==
    IF heads = <<>> \/ vals = <<>> THEN EmptyDict
    ELSE LET n == IF Len(heads) < Len(vals) THEN Len(heads) ELSE Len(vals)
         IN  DictSet(EvidenceFirst(SubSeq(heads, 1, n - 1),
                                   SubSeq(vals, 1, n - 1)),
                     heads[n], <<vals[n]>>)

\* for j, k in zip(heads, vals): evidence[j].append(k); a header that is no
\* key raises KeyError.
RECURSIVE EvidenceAppend(_, _, _)
EvidenceAppend(ev, heads, vals) ==
    IF heads = <<>> \/ vals = <<>> THEN [exc |-> "none", evidence |-> Dict(ev)]
    ELSE IF Head(heads) \notin DOMAIN ev
         THEN [exc |-> "KeyError", evidence |-> Dict(ev)]
         ELSE EvidenceAppend(
                 [ev EXCEPT ![Head(heads)] = Append(@, Head(vals))],
                 Tail(heads), Tail(vals))

\* Lines 260-266: the evidence after the fragment of one K; diff is
\* data.split("\n"), and diff[1] of a one-line fragment raises IndexError.
EvidenceStep(ev, diff) ==
    IF ev = None THEN [exc |-> "none", evidence |-> ev]
    ELSE IF Len(diff) < 2 THEN [exc |-> "IndexError", evidence |-> ev]
    ELSE IF ev = Dict(EmptyDict)
         THEN [exc |-> "none",
               evidence |-> Dict(EvidenceFirst(SplitOn(diff[1], Comma),
                                               SplitOn(diff[2], Comma)))]
         ELSE EvidenceAppend(ev.d, SplitOn(diff[1], Comma),
                             SplitOn(diff[2], Comma))

\* Lines 267-271: what the K's fragment adds to the merged file.
Written(data, diff, first) == IF first THEN data ELSE diff[2]

\* Paths.
OutDir == <<"out">>
MergedDir == OutDir \o <<"/", "merged">>
MergedPath(filename) == MergedDir \o <<"/">> \o filename
BestKDir == OutDir \o <<"/", "bestK">>
VerdictPath == BestKDir \o <<"/", "TI_integration.txt">>

----------------------------------------------------------------------------
\* The inputs of the merger.

\* The parameter files of the merger: the two toggles each absent, off or
\* on, and the evidence file either under its default name or renamed.
ToggleLines(key) ==
    {<<>>, <<key \o <<Tab, "F", Newline>>>>, <<key \o <<Tab, "t", Newline>>>>}

MergeParamFiles ==
    {a \o b : a \in ToggleLines(outputEvidence_on),
              b \in ToggleLines(outputEvidenceDetails_on)}
    \cup {<<outputEvidence \o <<Tab, "ev.csv", Newline>>>>}

\* The names under which the runs wrote their fragments: the configured
\* ones.
PrimaryName(file) ==
    IF file = <<outputEvidence \o <<Tab, "ev.csv", Newline>>>>
    THEN <<"ev.csv">> ELSE DefaultEvidence

\* The log-evidence a run reports for a K.
TIMean(k) == (2 * k) % 3

\* A fragment is a header line and one data line.  "ok" has the columns K and
\* logEvidence_TIMean; "short" lacks the second, "long" has a third.
FragHeader(kind) ==
    CASE kind = "short" -> <<"K">>
      [] kind = "long" ->
            <<"K", Comma, "logEvidence_TIMean", Comma, "logEvidence_TISE">>
      [] OTHER -> <<"K", Comma, "logEvidence_TIMean">>

FragData(kind, k) ==
    CASE kind = "short" -> StrInt(k)
      [] kind = "long" ->
            StrInt(k) \o <<Comma>> \o StrInt(TIMean(k)) \o <<Comma, "0.5">>
      [] OTHER -> StrInt(k) \o <<Comma>> \o StrInt(TIMean(k))

Fragment(kind, k) ==
    FragHeader(kind) \o <<Newline>> \o FragData(kind, k) \o <<Newline>>

DetailsFragment(k) ==
    <<"K", Comma, "rep", Newline>> \o StrInt(k) \o <<Comma, "1", Newline>>

\* What the run of a K left behind: both fragments, the evidence fragment
\* with another header, or one of the two fragments missing.
FragKinds == {"ok", "short", "long", "missing", "nodetails"}

FragsOf(file, klist, kinds) ==
    LET prim == {<<k, PrimaryName(file)>> :
                    k \in {x \in Range(klist) : kinds[x] # "missing"}}
        det == {<<k, DefaultEvidenceDetails>> :
                    k \in {x \in Range(klist) : kinds[x] # "nodetails"}}
    IN  [key \in prim \cup det |->
            IF key[2] = DefaultEvidenceDetails THEN DetailsFragment(key[1])
            ELSE Fragment(kinds[key[1]], key[1])]

----------------------------------------------------------------------------
\* maverick_merger as a state machine: one step for the file list, one for
\* each open(), one for each K of the inner loop, one for each close(), one
\* for the end.

InitMerge ==
    /\ params_file \in MergeParamFiles
    /\ k_list \in KLists
    /\ op = "maverick_merger"
    /\ call \in [no_tests : BOOLEAN]
    /\ ret = NoCall
    /\ dirs = {}
    /\ pc = "start"
    /\ \E kinds \in [Range(k_list) -> FragKinds] :
          frags = FragsOf(params_file, k_list, kinds)
    /\ files = <<>>
    /\ no_tests = call.no_tests
    /\ files_list = <<>>
    /\ fidx = 0
    /\ kidx = 0
    /\ first_k = FALSE
    /\ evidence = None
    /\ outbuf = <<>>
    /\ NormIdle

\* An uncaught exception ends the merger.
Raise(exc) ==
    /\ pc' = "raised"
    /\ ret' = [status |-> exc, val |-> None]

inputVars == <<params_file, k_list, op, call, frags, normVars>>

\* Lines 241-248, _gen_files_list found its parameters.
MergerStart ==
    /\ pc = "start"
    /\ LET parsed == mav_params_parser(params_file, output_params)
       IN  /\ parsed.exc = "none"
           /\ parsed.val # None
           /\ LET g == GenFilesList(parsed.val.d, no_tests)
              IN  /\ files_list' = g.files_list
                  /\ no_tests' = g.no_tests
    /\ dirs' = dirs \cup {MergedDir}
    /\ fidx' = 1
    /\ pc' = "file"
    /\ UNCHANGED <<inputVars, ret, files, kidx, first_k, evidence, outbuf>>

\* Lines 179-183, none of output_params is in the parameter file:
\* mav_params_parser returned None and parsed_params["outputEvidence_on"]
\* raises TypeError, which "except KeyError" does not catch.
MergerStartNone ==
    /\ pc = "start"
    /\ LET parsed == mav_params_parser(params_file, output_params)
       IN  /\ parsed.exc = "none"
           /\ parsed.val = None
    /\ Raise("TypeError")
    /\ UNCHANGED <<inputVars, dirs, files, no_tests, files_list, fidx, kidx,
                   first_k, evidence, outbuf>>

\* Lines 251-256: open() creates or truncates the merged file.
OpenOutfile ==
    /\ pc = "file"
    /\ fidx <= Len(files_list)
    /\ files' = DictSet(files, MergedPath(files_list[fidx]), <<>>)
    /\ outbuf' = <<>>
    /\ first_k' = TRUE
    /\ evidence' = IF files_list[fidx] = files_list[1] THEN Dict(EmptyDict)
                   ELSE None
    /\ kidx' = 1
    /\ pc' = "k"
    /\ UNCHANGED <<inputVars, ret, dirs, no_tests, files_list, fidx>>

\* Lines 258-271, the fragment of the K is there.
MergeK ==
    /\ pc = "k"
    /\ kidx <= Len(k_list)
    /\ <<k_list[kidx], files_list[fidx]>> \in DOMAIN frags
    /\ LET data == MavOutputParser(frags[<<k_list[kidx], files_list[fidx]>>])
           diff == SplitOn(data, Newline)
           step == EvidenceStep(evidence, diff)
       IN  /\ step.exc = "none"
           /\ evidence' = step.evidence
           /\ outbuf' = outbuf \o Written(data, diff, first_k)
    /\ first_k' = FALSE
    /\ kidx' = kidx + 1
    /\ UNCHANGED <<inputVars, ret, dirs, pc, files, no_tests, files_list,
                   fidx>>

\* When an exception ends the merger the outfile is still open: what was
\* written to it reaches the disk if the interpreter gets to flush it.
AbortOutfile ==
    \E flushed \in BOOLEAN :
        files' = IF flushed
                 THEN [files EXCEPT ![MergedPath(files_list[fidx])] = outbuf]
                 ELSE files

\* Line 259, the fragment of the K is missing: open() raises.
MergeKMissing ==
    /\ pc = "k"
    /\ kidx <= Len(k_list)
    /\ <<k_list[kidx], files_list[fidx]>> \notin DOMAIN frags
    /\ Raise("FileNotFoundError")
    /\ AbortOutfile
    /\ UNCHANGED <<inputVars, dirs, no_tests, files_list, fidx, kidx,
                   first_k, evidence, outbuf>>

\* Line 266, a header of the fragment is no column of the evidence.
MergeKRaises ==
    /\ pc = "k"
    /\ kidx <= Len(k_list)
    /\ <<k_list[kidx], files_list[fidx]>> \in DOMAIN frags
    /\ LET data == MavOutputParser(frags[<<k_list[kidx], files_list[fidx]>>])
           step == EvidenceStep(evidence, SplitOn(data, Newline))
       IN  /\ step.exc # "none"
           /\ Raise(step.exc)
    /\ AbortOutfile
    /\ UNCHANGED <<inputVars, dirs, no_tests, files_list, fidx, kidx,
                   first_k, evidence, outbuf>>

\* Line 273: close() writes the merged file.
CloseOutfile ==
    /\ pc = "k"
    /\ kidx > Len(k_list)
    /\ files' = [files EXCEPT ![MergedPath(files_list[fidx])] = outbuf]
    /\ fidx' = fidx + 1
    /\ pc' = "file"
    /\ UNCHANGED <<inputVars, ret, dirs, no_tests, files_list, kidx, first_k,
                   evidence, outbuf>>

\* Lines 276-277, tests enabled: the argument log_evidence_mv of _ti_test is
\* a name that is bound nowhere, so the call raises NameError before
\* _ti_test runs.
MergerTests ==
    /\ pc = "file"
    /\ fidx > Len(files_list)
    /\ no_tests = FALSE
    /\ Raise("NameError")
    /\ UNCHANGED <<inputVars, dirs, files, no_tests, files_list, fidx, kidx,
                   first_k, evidence, outbuf>>

\* Line 276, tests disabled: the function ends and returns None.
MergerReturn ==
    /\ pc = "file"
    /\ fidx > Len(files_list)
    /\ no_tests # FALSE
    /\ pc' = "done"
    /\ ret' = [status |-> "ok", val |-> None]
    /\ UNCHANGED <<inputVars, dirs, files, no_tests, files_list, fidx, kidx,
                   first_k, evidence, outbuf>>

NextMerge ==
    \/ MergerStart
    \/ MergerStartNone
    \/ OpenOutfile
    \/ MergeK
    \/ MergeKMissing
    \/ MergeKRaises
    \/ CloseOutfile
    \/ MergerTests
    \/ MergerReturn

SpecMerge == InitMerge /\ [][NextMerge]_vars

----------------------------------------------------------------------------
\* Properties of maverick_merger (SpecMerge).

\* The lines of a text: the pieces between newlines, without the empty piece
\* after a final newline.
Lines(text) ==
    LET pieces == SplitOn(text, Newline)
    IN  IF pieces[Len(pieces)] = <<>>
        THEN SubSeq(pieces, 1, Len(pieces) - 1)
        ELSE pieces

\* The header line and the data line of the fragment of a K.
HasFragment(k, filename) == <<k, filename>> \in DOMAIN frags
FragHeaderLine(k, filename) == Lines(frags[<<k, filename>>])[1]
FragDataLine(k, filename) == Lines(frags[<<k, filename>>])[2]

\* Every K has its fragment of the file, and all with the header of the first.
UniformFragments(filename) ==
    \A k \in Range(k_list) :
        /\ HasFragment(k, filename)
        /\ FragHeaderLine(k, filename) = FragHeaderLine(k_list[1], filename)

\* The inner loop over the K's has ended for the i-th file of files_list.
FileMerged(i) == i <= Len(files_list) /\ fidx > i

\* The loop over files_list has ended.
MergeCompleted == files_list # <<>> /\ fidx > Len(files_list)

\* C1: for a KList of N >= 1 values and every logical output file whose
\* fragments are one header line and one data line each, all with the same
\* header, the merged file has exactly N+1 lines: the header once, then one
\* separate data line per K in KList order.
C1_MergedFileLines ==
    \A i \in 1..Len(files_list) :
        (FileMerged(i) /\ UniformFragments(files_list[i])) =>
            /\ MergedPath(files_list[i]) \in DOMAIN files
            /\ Lines(files[MergedPath(files_list[i])]) =
                  <<FragHeaderLine(k_list[1], files_list[i])>>
                  \o [j \in 1..Len(k_list) |->
                        FragDataLine(k_list[j], files_list[i])]

\* C2: if the fragment of some K is missing for a logical output file, the
\* merger fails and no merged file for that logical output is left behind,
\* with or without the rows of the K's before the missing one.
C2_NoPartialMergedFile ==
    (pc = "raised" /\ ret.status = "FileNotFoundError") =>
        MergedPath(files_list[fidx]) \notin DOMAIN files

\* The EvidenceTable the specification describes: every column name of the
\* header mapped to the data tokens of the K's, in KList order.
ExpectedEvidence ==
    LET prim == files_list[1]
        heads == SplitOn(FragHeaderLine(k_list[1], prim), Comma)
    IN  [h \in Range(heads) |->
            LET c == CHOOSE x \in 1..Len(heads) : heads[x] = h
            IN  [j \in 1..Len(k_list) |->
                    SplitOn(FragDataLine(k_list[j], prim), Comma)[c]]]

\* C3: when the merge over all selected files has finished, with identical
\* fragment headers, the EvidenceTable of the primary evidence file is there
\* for the steps that follow and maps every column name to the N data tokens
\* of the K's in KList order, whether or not the details file is merged too.
C3_EvidenceTableAvailable ==
    (MergeCompleted /\ UniformFragments(files_list[1])) =>
        evidence = Dict(ExpectedEvidence)

\* The header of the primary fragment of some K has another number of
\* tokens than that of the first K.
HeaderCountMismatch ==
    /\ files_list # <<>>
    /\ \E k \in Range(k_list) :
          /\ HasFragment(k, files_list[1])
          /\ HasFragment(k_list[1], files_list[1])
          /\ Len(SplitOn(FragHeaderLine(k, files_list[1]), Comma))
                # Len(SplitOn(FragHeaderLine(k_list[1], files_list[1]), Comma))

\* C4: if the header of the primary evidence fragment of some K has another
\* number of comma-separated tokens than the header of the first K, the
\* merger aborts: it never gets through the primary file, and it never ends
\* the primary file with an EvidenceTable of columns of unequal length.
C4_SchemaMismatchAborts ==
    /\ HeaderCountMismatch => ~FileMerged(1)
    /\ (FileMerged(1) /\ fidx = 2 /\ pc = "file" /\ evidence # None) =>
          \A g, h \in DOMAIN evidence.d :
              Len(evidence.d[g]) = Len(evidence.d[h])

\* Testing is enabled: no_tests was given as false and outputEvidence_on is
\* not set to false.
TestingEnabled ==
    /\ call.no_tests = FALSE
    /\ \A i \in 1..Len(params_file) :
          params_file[i] # outputEvidence_on \o <<Tab, "F", Newline>>

\* The K of the KList with the maximal TI mean log-evidence, the first of
\* them in KList order.
BestK ==
    LET best == {i \in 1..Len(k_list) :
                    \A j \in 1..Len(k_list) :
                        TIMean(k_list[j]) <= TIMean(k_list[i])}
    IN  k_list[CHOOSE i \in best : \A j \in best : i <= j]

\* C9: whenever the merger completes its merge with testing enabled it
\* writes the verdict file under the bestK directory and returns the K with
\* the maximal TI mean log-evidence, the first in KList order on a tie; with
\* testing disabled it selects nothing and writes no verdict file.
C9_BestKVerdict ==
    (MergeCompleted /\ pc \in {"done", "raised"}) =>
        IF TestingEnabled
        THEN /\ ret.status = "ok"
             /\ ret.val = <<BestK>>
             /\ VerdictPath \in DOMAIN files
        ELSE /\ ret.status = "ok"
             /\ ret.val = None
             /\ VerdictPath \notin DOMAIN files

----------------------------------------------------------------------------
\* Properties of mav_alpha_failsafe and mav_cli_generator (SpecCli).

\* The token counts of the values the parameter file gives for a parameter
\* (none when the file has no line for it).
GivenTokens(param) ==
    {n \in 0..MaxToks :
        \E i \in 1..Len(params_file) : params_file[i] = Line(param, Tab, n)}

\* The position of a K in the KList.
PosInKList(k) == CHOOSE i \in 1..Len(k_list) : k_list[i] = k

\* The per-K mapping of the specification: keys the KList, the i-th K
\* mapped to the i-th token.
IsPerKMapping(v) ==
    /\ v.tag = "dict"
    /\ DOMAIN v.d = Range(k_list)
    /\ \A i \in 1..Len(k_list) : v.d[k_list[i]] = Token(i)

\* C5 as stated: for any valid KList, also of length 1, and a parameter value
\* of exactly len(KList) tokens, mav_alpha_failsafe returns for that
\* parameter a per-K mapping with key set KList and the i-th token for the
\* i-th K.
C5_PerKMappingAnyLength ==
    op = "mav_alpha_failsafe" =>
        \A param \in Range(parameters) :
            Len(k_list) \in GivenTokens(param) =>
                /\ ret.status = "ok"
                /\ IsPerKMapping(ret.val[param])

\* C5 amended: whenever mav_alpha_failsafe returns, a parameter value of
\* exactly len(KList) tokens resolves to the per-K mapping (key set KList, the
\* i-th token for the i-th K) if the KList has at least two entries, and to
\* the constant marker False if the KList has one entry.
C5_PerKMapping ==
    (op = "mav_alpha_failsafe" /\ ret.status = "ok") =>
        \A param \in Range(parameters) :
            Len(k_list) \in GivenTokens(param) =>
                IF Len(k_list) >= 2
                THEN IsPerKMapping(ret.val[param])
                ELSE ret.val[param] = False

C5_Witness ==
    /\ op = "mav_alpha_failsafe"
    /\ ret.status = "ok"
    /\ Len(k_list) >= 2
    /\ k_list[1] > k_list[2]
    /\ Len(k_list) \in GivenTokens(alpha)
    /\ IsPerKMapping(ret.val[alpha])

\* A parameter whose value has more than one token, and not len(KList).
BadCount(param) ==
    \E n \in GivenTokens(param) : n > 1 /\ n # Len(k_list)

\* C6: when the value of alpha or alphaPropSD has a token count that is
\* neither 1 nor len(KList), mav_alpha_failsafe ends the process (by
\* sys.exit, unless reading the file already raised): it returns no mapping,
\* mav_cli_generator builds no command from it, and no later call happens.
C6_MismatchIsFatal ==
    (op # "init" /\ \E param \in Range(parameters) : BadCount(param)) =>
        /\ ret.status # "ok"
        /\ ~Alive
        /\ (\A param \in Range(parameters) : 0 \notin GivenTokens(param))
              => ret.status = "SystemExit"
        /\ op = "mav_cli_generator" => ret.cli = <<>>

C6_Witness ==
    /\ op = "mav_cli_generator"
    /\ ret.status = "SystemExit"
    /\ GivenTokens(alpha) = {Len(k_list)}
    /\ \E n \in GivenTokens(alphaPropSD) : n > 1 /\ n < Len(k_list)

\* The parameters that resolve to a per-K mapping: more than one token.
ResolvesPerK(param) == \E n \in GivenTokens(param) : n > 1

\* The positions of a string in a command line.
Positions(cli, str) == {i \in 1..Len(cli) : cli[i] = str}

\* C7: the argument list mav_cli_generator returns for a K of the KList sets
\* -Kmin and -Kmax both to that K, holds "-<param> <value>" with the mapping's
\* value for that K for exactly the parameters that resolved to a per-K
\* mapping, and holds nothing for a parameter that is constant or absent.
C7_CommandLine ==
    (op = "mav_cli_generator" /\ ret.status = "ok") =>
        LET cli == ret.cli
            k == call.k_val
            perk == {param \in Range(parameters) : ResolvesPerK(param)}
        IN  /\ \E i \in 1..(Len(cli) - 1) :
                  /\ Positions(cli, <<"-Kmin">>) = {i}
                  /\ cli[i + 1] = <<DigitChars[k + 1]>>
            /\ \E i \in 1..(Len(cli) - 1) :
                  /\ Positions(cli, <<"-Kmax">>) = {i}
                  /\ cli[i + 1] = <<DigitChars[k + 1]>>
            /\ \A param \in perk :
                  \E i \in 1..(Len(cli) - 1) :
                      /\ Positions(cli, <<"-">> \o param) = {i}
                      /\ cli[i + 1] = Token(PosInKList(k))
            /\ \A param \in Range(parameters) \ perk :
                  Positions(cli, <<"-">> \o param) = {}
            /\ Len(cli) = 13 + (IF call.notests THEN 2 ELSE 0)
                             + 2 * Cardinality(perk)

C7_Witness ==
    /\ op = "mav_cli_generator"
    /\ ret.status = "ok"
    /\ Len(k_list) = 3
    /\ call.k_val = k_list[2]
    /\ GivenTokens(alpha) = {3}
    /\ GivenTokens(alphaPropSD) = {1}
    /\ Positions(ret.cli, <<"-alpha">>) = {}
    /\ Positions(ret.cli, <<"-", "alpha">>) # {}

----------------------------------------------------------------------------
\* Properties of mav_params_parser (SpecParser).

\* The lines of the file whose key token (its first whitespace-separated
\* token) is the key, whatever separates it from the value.
LinesWithKey(key) ==
    {i \in 1..Len(params_file) :
        \E sep \in {Tab, Space}, n \in 0..MaxToks :
            params_file[i] = Line(key, sep, n)}

\* The lines of the file that are the key, a tab, and a value.
LinesWithKeyTab(key) ==
    {i \in 1..Len(params_file) :
        \E n \in 0..MaxToks : params_file[i] = Line(key, Tab, n)}

\* The second token of a line: its value, if it has one.
SecondToken(line) ==
    CHOOSE v \in {Value(n) : n \in 1..MaxToks} :
        \E key \in {alpha, alphaPropSD}, sep \in {Tab, Space} :
            line = key \o <<sep>> \o v \o <<Newline>>

HasValue(line) ==
    \E n \in 1..MaxToks, key \in {alpha, alphaPropSD}, sep \in {Tab, Space} :
        line = Line(key, sep, n)

Last(S) == CHOOSE i \in S : \A j \in S : j <= i

\* The result of a query, for a given notion of "the lines of key".
ParserResultIs(lines_of(_)) ==
    LET matched == {q \in Range(call) : lines_of(q) # {}}
    IN  /\ ret.exc = "none"
        /\ (ret.val = None) <=> (matched = {})
        /\ matched # {} =>
              /\ ret.val.tag = "dict"
              /\ DOMAIN ret.val.d = matched
              /\ \A q \in matched :
                    ret.val.d[q] = SecondToken(params_file[Last(lines_of(q))])

\* C10 as stated: for any parameter file (here: of lines that all have a key
\* and a value) and query tuple the result holds exactly the queried keys
\* that are the key token of some line, each with that line's second token,
\* and is None iff no queried key matched.
C10_KeyTokenMatches ==
    (/\ op = "mav_params_parser"
     /\ \A i \in 1..Len(params_file) : HasValue(params_file[i]))
        => ParserResultIs(LinesWithKey)

\* C10 amended: for any parameter file in which every line that starts with
\* a queried key followed by a tab has a second token, the result holds
\* exactly the queried keys that some line starts with followed by a tab (a
\* key followed by a space, or a key that is a proper prefix of the line's
\* key, does not match), each with the second token of the last such line,
\* and is None iff no queried key matched; otherwise IndexError is raised.
C10_TabMatches ==
    op = "mav_params_parser" =>
        IF \A q \in Range(call) : \A i \in LinesWithKeyTab(q) :
               HasValue(params_file[i])
        THEN ParserResultIs(LinesWithKeyTab)
        ELSE ret.exc = "IndexError"

C10_Witness ==
    /\ op = "mav_params_parser"
    /\ call = <<alpha, alphaPropSD>>
    /\ Len(params_file) = 2
    /\ params_file[1] = Line(alphaPropSD, Tab, 2)
    /\ params_file[2] = Line(alpha, Space, 1)
    /\ ret.exc = "none"
    /\ ret.val = Dict((alphaPropSD :> Value(2)))

----------------------------------------------------------------------------
\* maverick_normalization

\* Bounds of the normalization: the draws of a call and the values a draw
\* np.exp(rnorm(mean, sd)) takes, a positive number each.
MaxDraws == 3
MaxSample == 2

\* limit=95
Limit == 95

Samples == 1..MaxSample

\* The numbers are exact fractions <<numerator, denominator>>.
RatAdd(a, b) == <<a[1] * b[2] + b[1] * a[2], a[2] * b[2]>>
RatLess(a, b) == a[1] * b[2] < b[1] * a[2]

RECURSIVE SumInts(_)
SumInts(seq) == IF seq = <<>> THEN 0 ELSE Head(seq) + SumInts(Tail(seq))

RECURSIVE SumRats(_)
SumRats(seq) ==
    IF seq = <<>> THEN <<0, 1>> ELSE RatAdd(Head(seq), SumRats(Tail(seq)))

\* y_array / sum(y_array): every draw of the K over the sum of the draws of
\* that K.
Shares(y_array) ==
    [d \in 1..Len(y_array) |-> <<y_array[d], SumInts(y_array)>>]

\* np.sort
Sorted(row) == SortSeq(row, LAMBDA a, b : RatLess(a, b))

\* np.mean
Mean(row) ==
    LET total == SumRats(row) IN <<total[1], total[2] * Len(row)>>

\* np.percentile(row, q) of a sorted row with q = q2 / 2 percent: linear
\* interpolation between the closest ranks.
Percentile(row, q2) ==
    LET pos == q2 * (Len(row) - 1)
        lo == (pos \div 200) + 1
        frac == pos % 200
    IN  IF frac = 0 THEN row[lo]
        ELSE <<row[lo][1] * row[lo + 1][2] * (200 - frac)
                  + row[lo + 1][1] * row[lo][2] * frac,
               row[lo][2] * row[lo + 1][2] * 200>>

\* l_limit = (100 - limit) / 2 and u_limit = 100 - l_limit, both doubled.
LLimit2 == 100 - Limit
ULimit2 == 200 - LLimit2

\* Lines 306-310: norm_res from z_array, for enumerate(klist).
NormRes(z, klist) ==
    [k \in Range(klist) |->
        LET i == CHOOSE x \in 1..Len(klist) : klist[x] = k
        IN  [norm_mean |-> Mean(z[i]),
             lower_limit |-> Percentile(z[i], LLimit2),
             upper_limit |-> Percentile(z[i], ULimit2)]]

\* A call of maverick_normalization for a KList, with one (mean, sd) per K:
\* z_array = np.zeros([len(x_mean), draws]).
InitNorm ==
    /\ params_file = <<>>
    /\ k_list \in KLists
    /\ op = "maverick_normalization"
    /\ call = <<>>
    /\ ret = NoCall
    /\ dirs = {}
    /\ MergerIdle
    /\ draws \in 1..MaxDraws
    /\ norm_i = 0
    /\ z_array = [i \in 1..Len(k_list) |-> [d \in 1..draws |-> <<0, 1>>]]
    /\ norm_res = <<>>

\* Lines 295-299, one pass of the loop over the rows: the draws of the row,
\* divided by their sum and sorted.
NormRow ==
    /\ ret = NoCall
    /\ norm_i < Len(z_array)
    /\ \E y_array \in [1..draws -> Samples] :
          z_array' = [z_array EXCEPT ![norm_i + 1] = Sorted(Shares(y_array))]
    /\ norm_i' = norm_i + 1
    /\ UNCHANGED <<params_file, k_list, op, call, ret, dirs, mergeVars,
                   draws, norm_res>>

\* Lines 302-312
NormReturn ==
    /\ ret = NoCall
    /\ norm_i = Len(z_array)
    /\ norm_res' = NormRes(z_array, k_list)
    /\ ret' = [status |-> "ok", val |-> norm_res']
    /\ UNCHANGED <<params_file, k_list, op, call, dirs, mergeVars, draws,
                   norm_i, z_array>>

NextNorm == NormRow \/ NormReturn

SpecNorm == InitNorm /\ [][NextNorm]_vars

----------------------------------------------------------------------------
\* Properties of maverick_normalization (SpecNorm).

\* The posterior means of the K's, in KList order.
NormMeans == [i \in 1..Len(k_list) |-> norm_res[k_list[i]].norm_mean]

\* A fraction is within 0.01 of 1.
NearOne(r) ==
    /\ 100 * (r[1] - r[2]) <= r[2]
    /\ 100 * (r[2] - r[1]) <= r[2]

\* C8: every K's sample of a trial is divided by the sum of that trial's
\* samples across all K, so that the posterior means returned for the K's
\* sum to 1 (within tolerance).
C8_MeansSumToOne ==
    ret.status = "ok" => NearOne(SumRats(NormMeans))

----------------------------------------------------------------------------
\* mav_ti_in_use and _gen_files_list on parameter files that may lack the
\* keys they ask for.

\* mav_ti_in_use(parameter_filename): parsed_data["thermodynamic_on"] is
\* evaluated first, so a parsed_data of None raises TypeError before the
\* "elif not parsed_data" branch can be reached.
mav_ti_in_use(file) ==
    LET parsed_data == mav_params_parser(file, <<thermodynamic_on>>)
    IN  IF parsed_data.exc # "none"
        THEN [status |-> parsed_data.exc, val |-> None]
        ELSE IF parsed_data.val = None
        THEN [status |-> "TypeError", val |-> None]
        ELSE IF thermodynamic_on \notin DOMAIN parsed_data.val.d
        THEN [status |-> "KeyError", val |-> None]
        ELSE [status |-> "ok",
              val |-> Lower(parsed_data.val.d[thermodynamic_on])
                         \notin FalseWords]

\* _gen_files_list(output_params, no_tests) with the parsing in it: a
\* parsed_params of None raises TypeError at its first subscript, which
\* "except KeyError" does not catch.
gen_files_list(file, notests) ==
    LET parsed_params == mav_params_parser(file, output_params)
    IN  IF parsed_params.exc # "none"
        THEN [status |-> parsed_params.exc, files_list |-> <<>>,
              no_tests |-> notests]
        ELSE IF parsed_params.val = None
        THEN [status |-> "TypeError", files_list |-> <<>>,
              no_tests |-> notests]
        ELSE LET g == GenFilesList(parsed_params.val.d, notests)
             IN  [status |-> "ok", files_list |-> g.files_list,
                  no_tests |-> g.no_tests]

\* The parameter files: up to MaxLines "key<TAB>value" lines, of the
\* thermodynamic_on toggle, of the output toggles and file names, and of a
\* parameter that neither function asks for.
DefaultsLines ==
    {key \o <<Tab, v, Newline>> :
        key \in {thermodynamic_on, outputEvidence_on,
                 outputEvidenceDetails_on},
        v \in {"F", "t"}}
    \cup {outputEvidence \o <<Tab, "ev.csv", Newline>>,
          alpha \o <<Tab, "0.1", Newline>>}

DefaultsParamFiles == UNION {[1..n -> DefaultsLines] : n \in 0..MaxLines}

InitDefaults ==
    /\ params_file \in DefaultsParamFiles
    /\ k_list = <<>>
    /\ op = "init"
    /\ call = <<>>
    /\ ret = NoCall
    /\ dirs = {}
    /\ MergerIdle
    /\ NormIdle

CallTiInUse ==
    /\ Alive
    /\ op' = "mav_ti_in_use"
    /\ call' = <<>>
    /\ ret' = mav_ti_in_use(params_file)
    /\ UNCHANGED <<params_file, k_list, dirs, mergeVars, normVars>>

CallGenFilesList ==
    /\ Alive
    /\ \E notests \in BOOLEAN :
          /\ op' = "gen_files_list"
          /\ call' = [no_tests |-> notests]
          /\ ret' = gen_files_list(params_file, notests)
    /\ UNCHANGED <<params_file, k_list, dirs, mergeVars, normVars>>

NextDefaults == CallTiInUse \/ CallGenFilesList

SpecDefaults == InitDefaults /\ [][NextDefaults]_vars

----------------------------------------------------------------------------
\* Properties of the defaults (SpecDefaults).

\* The parameter file has a line of the key.
KeyPresent(key) ==
    \E i \in 1..Len(params_file) :
        /\ Len(params_file[i]) > Len(key)
        /\ SubSeq(params_file[i], 1, Len(key)) = key
        /\ params_file[i][Len(key) + 1] = Tab

\* C11, for mav_ti_in_use: when thermodynamic_on is not in the parameter
\* file the function raises nothing and returns True.
C11_TiDefaultsOn ==
    (op = "mav_ti_in_use" /\ ~KeyPresent(thermodynamic_on)) =>
        /\ ret.status = "ok"
        /\ ret.val = TRUE

\* C11, for _gen_files_list: when none of output_params is in the parameter
\* file the function raises nothing and yields the default evidence file
\* name followed by the default evidence details file name.
C11_FilesListDefaults ==
    (op = "gen_files_list"
        /\ \A key \in Range(output_params) : ~KeyPresent(key)) =>
        /\ ret.status = "ok"
        /\ ret.files_list = <<DefaultEvidence, DefaultEvidenceDetails>>

\* C11: a key that is not found is never fatal and resolves to the default:
\* mav_ti_in_use returns True, and the file list is the default evidence file
\* and the default evidence details file, neither raising an error.
C11_NotFoundIsDefault == C11_TiDefaultsOn /\ C11_FilesListDefaults

====
